---------------------------- MODULE Spec2Model ----------------------------
(***************************************************************************)
(* Model of the contrast-curve code of spaceKLIP:                          *)
(*   - mask_companions and mask_bar (pyKLIP_for_Webb/contrast.py), as pure *)
(*     functions on small integer cubes (specification SpecMask);          *)
(*   - raw_contrast_curve and cal_contrast_curve, as a batch process over  *)
(*     the per-scenario output directories, with the .npy artifacts they   *)
(*     load and save (specification Spec);                                 *)
(*   - the computations of cal_contrast_curve (SpecCalc) and two scenarios *)
(*     run side by side (SpecPar);                                         *)
(*   - Coron1Pipeline and run_ramp_fitting (spaceKLIP/rampfit.py) and      *)
(*     get_transmission (spaceKLIP/psf.py).                                *)
(***************************************************************************)
EXTENDS Integers, Sequences, FiniteSets, TLC

VARIABLES
    cube,      \* mask functions: the input array `data`
    margs,     \* mask functions: the arguments of the last call
    masked,    \* mask functions: the array returned by the last call
    merr,      \* mask functions: the exception raised by the last call
    mnew,      \* mask functions: the returned array is a new object
    files,     \* the .npy artifacts of every output directory
    fits,      \* the directories whose <key>-KLmodes-all.fits exists
    pc,        \* position of the running batch
    job,       \* arguments of the running batch
    idx,       \* position of the batch in its loop over scenarios and keys
    mem,       \* local variables of the running call
    nrun,      \* number of cal_contrast_curve calls started so far
    modes,     \* params.mode, the processing modes of the configuration
    calc,      \* functions evaluated in one step: the last call and its result
    par,       \* two scenarios run side by side: positions and file system
    ramp       \* run_ramp_fitting: its position, the root logger and the steps run

maskvars == <<cube, margs, masked, merr, mnew>>
pipevars == <<files, fits, pc, job, idx, mem, nrun, modes>>
vars == <<cube, margs, masked, merr, mnew, files, fits, pc, job, idx, mem,
         nrun, modes, calc, par, ramp>>

---------------------------------------------------------------------------
(* Bounds of the mask model.                                               *)

NPix == 3          \* the frames are NPix x NPix pixels
NFrames == 2       \* frames (KL modes) of a 3-D cube
MaxSrc == 2        \* longest ra_off / de_off list
MaxPxsc == 2       \* pixel scales 1..MaxPxsc (mas per pixel)
MaxRad == 2        \* mask radii 0..MaxRad (pixels)
MaxRanges == 2     \* longest pa_ranges_bar list

\* np.nan, the value of an invalid pixel (pixel values are positive).
NaN == -1

\* Companion offsets (mas) and the bounds of the angular ranges (degrees).
Offsets == {-2, 1}
Degrees == {0, 90, 135, 360}

Pix == 0 .. (NPix - 1)

Min(a, b) == IF a <= b THEN a ELSE b

SeqsUpTo(S, n) == UNION {[1..k -> S] : k \in 0..n}

---------------------------------------------------------------------------
(* Arrays.  A cube is its shape and its pixels; the pixels of a 3-D cube   *)
(* are indexed <<frame, y, x>> (numpy's axis order).                       *)

Index3 == (1..NFrames) \X Pix \X Pix

\* A 3-D cube whose pixels are all different, with pixels `nans` invalid.
MkCube(nans) ==
    [shape |-> <<NFrames, NPix, NPix>>,
     px |-> [i \in Index3 |-> IF i \in nans THEN NaN
                              ELSE 100 * i[1] + 10 * i[2] + i[3] + 1]]

\* Arrays that are not 3-D: an image and a 4-D stack.
Image2D == [shape |-> <<NPix, NPix>>,
            px |-> [i \in Pix \X Pix |-> 10 * i[1] + i[2] + 1]]
Stack4D == [shape |-> <<1, 1, 1, 1>>,
            px |-> [i \in {<<1, 1, 0, 0>>} |-> 7]]

Cubes == {MkCube({}), MkCube({<<1, 0, 0>>}), Image2D, Stack4D}

NoArray == [shape |-> <<>>, px |-> <<>>]

---------------------------------------------------------------------------
(* mask_companions.                                                        *)
(* dist = sqrt((xx-cent[0]+ra/pxsc)^2 + (yy-cent[1]-de/pxsc)^2) <= mrad,   *)
(* compared here after multiplying both sides by pxsc and squaring, which  *)
(* keeps the arithmetic in the integers (pxsc > 0, mrad >= 0).             *)

Sq(a) == a * a

\* Mutant: the RA offset applied with the sign of the Dec offset.
DistLeqMrad_RaFlipped(x, y, pxsc, cent, mrad, ra, de) ==
    Sq((x - cent[1]) * pxsc - ra) + Sq((y - cent[2]) * pxsc - de)
        <= Sq(mrad * pxsc)

DistLeqMrad(x, y, pxsc, cent, mrad, ra, de) ==
    Sq((x - cent[1]) * pxsc + ra) + Sq((y - cent[2]) * pxsc - de)
        <= Sq(mrad * pxsc)

\* zip(ra_off, de_off) stops at the shorter list.
ZipLen(ra_off, de_off) == Min(Len(ra_off), Len(de_off))

\* The pixels of the copy after the loop over the companions.
CompanionPixels(data, pxsc, cent, mrad, ra_off, de_off) ==
    [i \in DOMAIN data.px |->
        IF \E s \in 1..ZipLen(ra_off, de_off) :
              DistLeqMrad(i[3], i[2], pxsc, cent, mrad, ra_off[s], de_off[s])
        THEN NaN
        ELSE data.px[i]]

\* Mutant: the companions are masked in `data` itself (no copy), which is
\* then returned.
mask_companions_InPlace(data, pxsc, cent, mrad, ra_off, de_off) ==
    IF Len(data.shape) # 3
    THEN [err |-> "UserWarning", out |-> NoArray, data |-> data, new |-> FALSE]
    ELSE LET res == [shape |-> data.shape,
                     px |-> CompanionPixels(data, pxsc, cent, mrad, ra_off, de_off)]
         IN  [err |-> "none", out |-> res, data |-> res, new |-> FALSE]

\* The result of a call: the exception raised (then nothing is returned),
\* the returned array, the caller's `data` after the call, and whether the
\* returned array is another object than `data` (data_masked = data.copy()).
mask_companions(data, pxsc, cent, mrad, ra_off, de_off) ==
    IF Len(data.shape) # 3
    THEN [err |-> "UserWarning", out |-> NoArray, data |-> data, new |-> FALSE]
    ELSE [err |-> "none",
          out |-> [shape |-> data.shape,
                   px |-> CompanionPixels(data, pxsc, cent, mrad, ra_off, de_off)],
          data |-> data,
          new |-> TRUE]

---------------------------------------------------------------------------
(* mask_bar.                                                               *)
(* tt = rad2deg(-arctan2(xx-cent[0], yy-cent[1])) % 360.  The range bounds *)
(* are multiples of 45 degrees, so tt only has to be placed among them:    *)
(* AngleCode is 2k when tt = 45k exactly and 2k+1 when 45k < tt < 45(k+1). *)

AngleCode(dx, dy) ==
    CASE dx = 0 /\ dy >= 0 -> 0
      [] dx < 0 /\ dy > 0 -> IF -dx < dy THEN 1 ELSE IF -dx = dy THEN 2 ELSE 3
      [] dx < 0 /\ dy = 0 -> 4
      [] dx < 0 /\ dy < 0 -> IF -dy < -dx THEN 5 ELSE IF -dy = -dx THEN 6 ELSE 7
      [] dx = 0 /\ dy < 0 -> 8
      [] dx > 0 /\ dy < 0 -> IF dx < -dy THEN 9 ELSE IF dx = -dy THEN 10 ELSE 11
      [] dx > 0 /\ dy = 0 -> 12
      [] dx > 0 /\ dy > 0 -> IF dy < dx THEN 13 ELSE IF dy = dx THEN 14 ELSE 15

\* A bound of d degrees (a multiple of 45) on the scale of AngleCode.
DegCode(d) == 2 * (d \div 45)

\* Mutant: the lower bound of a range is exclusive.
InRange_ExclusiveLower(x, y, cent, range) ==
    LET tt == AngleCode(x - cent[1], y - cent[2])
    IN  tt > DegCode(range[1]) /\ tt <= DegCode(range[2])

\* Mutant: the upper bound of a range is exclusive.
InRange_ExclusiveUpper(x, y, cent, range) ==
    LET tt == AngleCode(x - cent[1], y - cent[2])
    IN  tt >= DegCode(range[1]) /\ tt < DegCode(range[2])

\* mask = (tt >= pa_ranges_bar[i][0]) & (tt <= pa_ranges_bar[i][1])
InRange(x, y, cent, range) ==
    LET tt == AngleCode(x - cent[1], y - cent[2])
    IN  tt >= DegCode(range[1]) /\ tt <= DegCode(range[2])

\* Mutant: the copy is set to NaN before the loop instead of in its first
\* iteration.
BarPixels_NanBeforeLoop(data, cent, pa_ranges_bar) ==
    [i \in DOMAIN data.px |->
        IF \E r \in 1..Len(pa_ranges_bar) :
              InRange(i[3], i[2], cent, pa_ranges_bar[r])
        THEN data.px[i]
        ELSE NaN]

\* The pixels of the copy after the loop over the ranges: the copy is set
\* to NaN in the first iteration, so it is only when there is one.
BarPixels(data, cent, pa_ranges_bar) ==
    [i \in DOMAIN data.px |->
        IF Len(pa_ranges_bar) = 0
        THEN data.px[i]
        ELSE IF \E r \in 1..Len(pa_ranges_bar) :
                   InRange(i[3], i[2], cent, pa_ranges_bar[r])
             THEN data.px[i]
             ELSE NaN]

\* Mutant: arrays of more than three dimensions pass the shape check.
mask_bar_AtLeast3D(data, cent, pa_ranges_bar) ==
    IF Len(data.shape) < 3
    THEN [err |-> "UserWarning", out |-> NoArray, data |-> data, new |-> FALSE]
    ELSE [err |-> "none",
          out |-> [shape |-> data.shape,
                   px |-> BarPixels(data, cent, pa_ranges_bar)],
          data |-> data,
          new |-> TRUE]

mask_bar(data, cent, pa_ranges_bar) ==
    IF Len(data.shape) # 3
    THEN [err |-> "UserWarning", out |-> NoArray, data |-> data, new |-> FALSE]
    ELSE [err |-> "none",
          out |-> [shape |-> data.shape,
                   px |-> BarPixels(data, cent, pa_ranges_bar)],
          data |-> data,
          new |-> TRUE]

---------------------------------------------------------------------------
(* The calls of the mask functions.                                        *)

Cents == Pix \X Pix
PaRanges == {r \in Degrees \X Degrees : r[1] <= r[2]}

NoCall == [op |-> "none", pxsc |-> 1, cent |-> <<0, 0>>, mrad |-> 0,
           ra_off |-> <<>>, de_off |-> <<>>, pa_ranges_bar |-> <<>>,
           mask |-> "none"]

MaskInit ==
    /\ cube \in Cubes
    /\ margs = NoCall
    /\ masked = NoArray
    /\ merr = "none"
    /\ mnew = FALSE

CallMaskCompanions ==
    /\ margs.op = "none"
    /\ \E pxsc \in 1..MaxPxsc, cent \in Cents, mrad \in 0..MaxRad,
       ra_off \in SeqsUpTo(Offsets, MaxSrc), de_off \in SeqsUpTo(Offsets, MaxSrc) :
        LET r == mask_companions(cube, pxsc, cent, mrad, ra_off, de_off)
        IN  /\ margs' = [op |-> "mask_companions", pxsc |-> pxsc, cent |-> cent,
                         mrad |-> mrad, ra_off |-> ra_off, de_off |-> de_off,
                         pa_ranges_bar |-> <<>>, mask |-> "none"]
            /\ masked' = r.out
            /\ merr' = r.err
            /\ mnew' = r.new
            /\ cube' = r.data

CallMaskBar ==
    /\ margs.op = "none"
    /\ \E cent \in Cents, pa_ranges_bar \in SeqsUpTo(PaRanges, MaxRanges) :
        LET r == mask_bar(cube, cent, pa_ranges_bar)
        IN  /\ margs' = [op |-> "mask_bar", pxsc |-> 1, cent |-> cent,
                         mrad |-> 0, ra_off |-> <<>>, de_off |-> <<>>,
                         pa_ranges_bar |-> pa_ranges_bar, mask |-> "none"]
            /\ masked' = r.out
            /\ merr' = r.err
            /\ mnew' = r.new
            /\ cube' = r.data

\* The masking of raw_contrast_curve: the companions first, then, for the
\* bar masks, the bar on the companion-masked cube.  An exception of the
\* first call ends the function.
BarMasks == {"MASKASWB", "MASKALWB"}
Masks == BarMasks \cup {"MASK335R"}

\* params.ra_off and params.de_off (as pairs) and params.pa_ranges_bar of
\* the configurations considered: none, one or two companions, and no, one
\* or two ranges.
Companions == {<<>>, << <<1, 1>> >>, << <<1, 1>>, <<-2, -2>> >>}
BarRanges == {<<>>, << <<0, 90>> >>, << <<135, 360>>, <<0, 90>> >>}

\* Mutant: the bar is masked on the cube as loaded, not on the
\* companion-masked cube.
raw_masking_BarOnData(data, pxsc, cent, mrad, ra_off, de_off, mask, pa_ranges_bar) ==
    LET c == mask_companions(data, pxsc, cent, mrad, ra_off, de_off)
    IN  IF c.err # "none" \/ mask \notin BarMasks
        THEN c
        ELSE LET b == mask_bar(data, cent, pa_ranges_bar)
             IN  [err |-> b.err, out |-> b.out, data |-> c.data,
                  new |-> b.new]

raw_masking(data, pxsc, cent, mrad, ra_off, de_off, mask, pa_ranges_bar) ==
    LET c == mask_companions(data, pxsc, cent, mrad, ra_off, de_off)
    IN  IF c.err # "none" \/ mask \notin BarMasks
        THEN c
        ELSE LET b == mask_bar(c.out, cent, pa_ranges_bar)
             IN  [err |-> b.err, out |-> b.out, data |-> c.data,
                  new |-> b.new]

CallRawMasking ==
    /\ margs.op = "none"
    /\ \E pxsc \in 1..MaxPxsc, cent \in Cents, mrad \in 0..MaxRad,
          comp \in Companions, mask \in Masks, pa_ranges_bar \in BarRanges :
        LET ra_off == [s \in DOMAIN comp |-> comp[s][1]]
            de_off == [s \in DOMAIN comp |-> comp[s][2]]
            r == raw_masking(cube, pxsc, cent, mrad, ra_off, de_off, mask,
                             pa_ranges_bar)
        IN  /\ margs' = [op |-> "raw_contrast_curve", pxsc |-> pxsc,
                         cent |-> cent, mrad |-> mrad, ra_off |-> ra_off,
                         de_off |-> de_off, pa_ranges_bar |-> pa_ranges_bar,
                         mask |-> mask]
            /\ masked' = r.out
            /\ merr' = r.err
            /\ mnew' = r.new
            /\ cube' = r.data


---------------------------------------------------------------------------
(* The batch functions raw_contrast_curve and cal_contrast_curve.          *)

MaxRuns == 3       \* cal_contrast_curve is called at most MaxRuns times
MaxVer == 2        \* raw_contrast_curve parameter sets 1..MaxVer

\* params.annuli, params.subsections and obs.keys(), and the processing
\* modes a configuration may list.
AllModes == {"ADI", "RDI"}
Annuli == <<1>>
Subsections == <<1>>
Keys == <<"F356W_MASK335R">>

\* The KL indices a call may select.
KLs == {0, 1}

\* The three nested loops and the loop over the keys, in order.
Batch ==
    LET nk == Len(Keys)
        ns == Len(Subsections) * nk
        na == Len(Annuli) * ns
    IN  [n \in 1..(Len(modes) * na) |->
            <<modes[((n - 1) \div na) + 1],
              Annuli[(((n - 1) % na) \div ns) + 1],
              Subsections[(((n - 1) % ns) \div nk) + 1],
              Keys[((n - 1) % nk) + 1]>>]

\* odir = params.odir+mode+'_annu%.0f_subs%.0f/CONS/' and the key that
\* starts every file name in it.
PathOf(item) == <<item[1], item[2], item[3], item[4]>>

BatchPaths == {PathOf(Batch[n]) : n \in DOMAIN Batch}

Paths == {PathOf(<<m, Annuli[a], Subsections[s], Keys[k]>>) :
            m \in AllModes, a \in DOMAIN Annuli, s \in DOMAIN Subsections,
            k \in DOMAIN Keys}

\* The artifacts the code names, and the calibrated contrast, which it
\* computes (corr_cons) and never passes to np.save.
ColumnNames == <<"flux_all", "seps_all", "pas_all", "flux_retr_all">>
Names == {"seps", "cons", "flux_all", "seps_all", "pas_all", "flux_retr_all",
          "pp", "corr_cons"}

NoFile == [kind |-> "none"]
Corrupt == [kind |-> "corrupt"]

Loadable(f) == f.kind = "npy"

\* The arrays seps and cons of one raw_contrast_curve call (all KL rows).
RawArray(ver) == [kind |-> "npy", ver |-> ver]

\* One column of the table inject_recover returns: the call that made it,
\* and the KL index and raw curve it was made for.
Column(run, KL, raw) == [kind |-> "npy", run |-> run, KL |-> KL, raw |-> raw]

inject_recover(run, KL, raw) ==
    [n \in {"flux_all", "seps_all", "pas_all", "flux_retr_all"} |->
        Column(run, KL, raw)]

NoTable ==
    [n \in {"flux_all", "seps_all", "pas_all", "flux_retr_all"} |-> NoFile]

\* least_squares on the medians of the table grouped by separation: the
\* result holds the last parameter estimate x, a function of the table, and
\* success, whether the solver converged.  (contrast.py imports neither
\* Table nor least_squares; they are taken to be astropy.table.Table and
\* scipy.optimize.least_squares, as the calls expect.)
least_squares(table, success) ==
    [x |-> [kind |-> "npy", fit |-> table], success |-> success]

NoFit == [x |-> NoFile, success |-> TRUE]

\* corr_cons = cons/self.func(pp['x'], seps*1000./pxsc)
Calibrate(raw, KL, x) == [kind |-> "npy", raw |-> raw, KL |-> KL, x |-> x]

EmptyMem ==
    [raw |-> NoFile, todo |-> FALSE, table |-> NoTable, pp |-> NoFit,
     corr_cons |-> NoFile, err |-> "none"]

Terminal == {"idle", "done", "failed", "interrupted"}
SavePc == [n \in {"flux_all", "seps_all", "pas_all", "flux_retr_all"} |->
             CASE n = "flux_all" -> "save_flux"
               [] n = "seps_all" -> "save_seps"
               [] n = "pas_all" -> "save_pas"
               [] n = "flux_retr_all" -> "save_retr"]

Here == PathOf(Batch[idx])

PipeInit(config) ==
    /\ modes = config
    /\ files = [p \in Paths |-> [n \in Names |-> NoFile]]
    /\ fits \in SUBSET {p \in Paths : \E n \in DOMAIN config : p[1] = config[n]}
    /\ pc = "idle"
    /\ job = [op |-> "none", ver |-> 0, KL |-> 0, overwrite |-> FALSE]
    /\ idx = 1
    /\ mem = EmptyMem
    /\ nrun = 0

\* counter += 1 and the next iteration, or the return after the last one.
Advance ==
    IF idx < Len(Batch)
    THEN /\ idx' = idx + 1
         /\ pc' = IF job.op = "raw" THEN "raw" ELSE "load"
    ELSE /\ idx' = idx
         /\ pc' = "done"

\* An exception leaves the function: nothing catches it.
Raise(e) ==
    /\ pc' = "failed"
    /\ mem' = [mem EXCEPT !.err = e]
    /\ UNCHANGED <<files, idx>>

StartRaw ==
    /\ pc \in Terminal
    /\ \E v \in 1..MaxVer :
          job' = [op |-> "raw", ver |-> v, KL |-> 0, overwrite |-> FALSE]
    /\ pc' = "raw"
    /\ idx' = 1
    /\ mem' = EmptyMem
    /\ UNCHANGED <<files, fits, nrun, modes, maskvars, calc, par, ramp>>

\* One iteration of the loop over the keys in raw_contrast_curve.
RawStep ==
    /\ pc = "raw"
    /\ IF Here \notin fits
       THEN Raise("FileNotFoundError")
       ELSE /\ files' = [files EXCEPT ![Here]["seps"] = RawArray(job.ver),
                                      ![Here]["cons"] = RawArray(job.ver)]
            /\ Advance
            /\ UNCHANGED mem
    /\ UNCHANGED <<fits, job, nrun, modes, maskvars, calc, par, ramp>>

StartCal ==
    /\ pc \in Terminal
    /\ nrun < MaxRuns
    /\ \E KL \in KLs, overwrite \in BOOLEAN :
          job' = [op |-> "cal", ver |-> 0, KL |-> KL, overwrite |-> overwrite]
    /\ nrun' = nrun + 1
    /\ pc' = "load"
    /\ idx' = 1
    /\ mem' = EmptyMem
    /\ UNCHANGED <<files, fits, modes, maskvars, calc, par, ramp>>

\* The try block: the four np.load in order; the first that fails leaves the
\* later names as they were and sets todo.
LoadTable(dir, table, n) ==
    LET RECURSIVE Go(_, _)
        Go(t, k) ==
            IF k > Len(ColumnNames) THEN [table |-> t, todo |-> FALSE]
            ELSE IF Loadable(dir[ColumnNames[k]])
                 THEN Go([t EXCEPT ![ColumnNames[k]] = dir[ColumnNames[k]]], k + 1)
                 ELSE [table |-> t, todo |-> TRUE]
    IN  Go(table, n)

\* Mutant: the cached table is never looked at (todo is always set).
CalLoad_IgnoresCache ==
    /\ pc = "load"
    /\ IF Here \notin fits
       THEN Raise("FileNotFoundError")
       ELSE IF ~(Loadable(files[Here]["seps"]) /\ Loadable(files[Here]["cons"]))
       THEN Raise("FileNotFoundError")
       ELSE /\ mem' = [mem EXCEPT !.raw = files[Here]["cons"], !.todo = TRUE]
            /\ pc' = "inject"
            /\ UNCHANGED <<files, idx>>
    /\ UNCHANGED <<fits, job, nrun, modes, maskvars, calc, par, ramp>>

\* Mutant: no try/except around the four np.load, so that a failing one
\* leaves the function.
CalLoad_NoExcept ==
    /\ pc = "load"
    /\ IF Here \notin fits
       THEN Raise("FileNotFoundError")
       ELSE IF ~(Loadable(files[Here]["seps"]) /\ Loadable(files[Here]["cons"]))
       THEN Raise("FileNotFoundError")
       ELSE LET got == IF job.overwrite = FALSE
                       THEN LoadTable(files[Here], mem.table, 1)
                       ELSE [table |-> mem.table, todo |-> TRUE]
            IN  IF job.overwrite = FALSE /\ got.todo
                THEN Raise("FileNotFoundError")
                ELSE /\ mem' = [mem EXCEPT !.raw = files[Here]["cons"],
                                           !.table = got.table,
                                           !.todo = got.todo]
                     /\ pc' = IF got.todo THEN "inject" ELSE "fit"
                     /\ UNCHANGED <<files, idx>>
    /\ UNCHANGED <<fits, job, nrun, modes, maskvars, calc, par, ramp>>

\* Mutant: without a raw curve the iteration goes on to the injection.
CalLoad_NoRawCheck ==
    /\ pc = "load"
    /\ IF Here \notin fits
       THEN Raise("FileNotFoundError")
       ELSE LET got == IF job.overwrite = FALSE
                       THEN LoadTable(files[Here], mem.table, 1)
                       ELSE [table |-> mem.table, todo |-> TRUE]
            IN  /\ mem' = [mem EXCEPT !.raw = files[Here]["cons"],
                                      !.table = got.table,
                                      !.todo = got.todo]
                /\ pc' = IF got.todo THEN "inject" ELSE "fit"
                /\ UNCHANGED <<files, idx>>
    /\ UNCHANGED <<fits, job, nrun, modes, maskvars, calc, par, ramp>>

\* The start of an iteration of cal_contrast_curve up to the cache check.
CalLoad ==
    /\ pc = "load"
    /\ IF Here \notin fits
       THEN Raise("FileNotFoundError")
       ELSE IF ~(Loadable(files[Here]["seps"]) /\ Loadable(files[Here]["cons"]))
       THEN Raise("FileNotFoundError")
       ELSE LET got == IF job.overwrite = FALSE
                       THEN LoadTable(files[Here], mem.table, 1)
                       ELSE [table |-> mem.table, todo |-> TRUE]
            IN  /\ mem' = [mem EXCEPT !.raw = files[Here]["cons"],
                                      !.table = got.table,
                                      !.todo = got.todo]
                /\ pc' = IF got.todo THEN "inject" ELSE "fit"
                /\ UNCHANGED <<files, idx>>
    /\ UNCHANGED <<fits, job, nrun, modes, maskvars, calc, par, ramp>>

\* if (todo == True): the injected fluxes and the call of inject_recover.
CalInject ==
    /\ pc = "inject"
    /\ mem' = [mem EXCEPT !.table = inject_recover(nrun, job.KL, mem.raw.ver)]
    /\ pc' = "save_flux"
    /\ UNCHANGED <<files, fits, job, idx, nrun, modes, maskvars, calc, par, ramp>>

\* One of the four np.save of the table.
SaveColumn(k) ==
    /\ pc = SavePc[ColumnNames[k]]
    /\ files' = [files EXCEPT ![Here][ColumnNames[k]] = mem.table[ColumnNames[k]]]
    /\ pc' = IF k < Len(ColumnNames) THEN SavePc[ColumnNames[k + 1]] ELSE "fit"
    /\ UNCHANGED <<fits, job, idx, mem, nrun, modes, maskvars, calc, par, ramp>>

CalSaveFlux == SaveColumn(1)
CalSaveSeps == SaveColumn(2)
CalSavePas == SaveColumn(3)
CalSaveRetr == SaveColumn(4)

\* Mutant: with a reused table and a parameter file already there, the
\* parameters are not saved again.
CalFit_KeepsSavedParameters ==
    /\ pc = "fit"
    /\ \E success \in BOOLEAN :
       LET pp == least_squares(mem.table, success)
       IN  /\ mem' = [mem EXCEPT !.pp = pp,
                                 !.corr_cons = Calibrate(mem.raw.ver, job.KL, pp.x)]
           /\ files' = IF ~mem.todo /\ Loadable(files[Here]["pp"])
                       THEN files
                       ELSE [files EXCEPT ![Here]["pp"] = pp.x]
    /\ Advance
    /\ UNCHANGED <<fits, job, nrun, modes, maskvars, calc, par, ramp>>

\* Mutant: parameters already persisted are loaded instead of fitted.
CalFit_LoadsSavedParameters ==
    /\ pc = "fit"
    /\ \E success \in BOOLEAN :
       LET pp == IF Loadable(files[Here]["pp"])
                 THEN [x |-> files[Here]["pp"], success |-> TRUE]
                 ELSE least_squares(mem.table, success)
       IN  /\ mem' = [mem EXCEPT !.pp = pp,
                                 !.corr_cons = Calibrate(mem.raw.ver, job.KL, pp.x)]
           /\ files' = [files EXCEPT ![Here]["pp"] = pp.x]
    /\ Advance
    /\ UNCHANGED <<fits, job, nrun, modes, maskvars, calc, par, ramp>>

\* The fit, the calibrated curve, np.save of pp['x'] and the plots.
CalFit ==
    /\ pc = "fit"
    /\ \E success \in BOOLEAN :
       LET pp == least_squares(mem.table, success)
       IN  /\ mem' = [mem EXCEPT !.pp = pp,
                                 !.corr_cons = Calibrate(mem.raw.ver, job.KL, pp.x)]
           /\ files' = [files EXCEPT ![Here]["pp"] = pp.x]
    /\ Advance
    /\ UNCHANGED <<fits, job, nrun, modes, maskvars, calc, par, ramp>>

\* The process is stopped (KeyboardInterrupt, kill).  A np.save under way
\* has either not opened its file yet or leaves it truncated.
Interrupt ==
    /\ pc \notin Terminal
    /\ pc' = "interrupted"
    /\ \/ UNCHANGED files
       \/ \E k \in 1..Len(ColumnNames) :
             /\ pc = SavePc[ColumnNames[k]]
             /\ files' = [files EXCEPT ![Here][ColumnNames[k]] = Corrupt]
    /\ mem' = [mem EXCEPT !.err = "KeyboardInterrupt"]
    /\ UNCHANGED <<fits, job, idx, nrun, modes, maskvars, calc, par, ramp>>

---------------------------------------------------------------------------
(* The computations of cal_contrast_curve on the arrays it has loaded, as  *)
(* functions.  Separations of the raw curve are in mas (the code keeps     *)
(* them in arcsec and multiplies by 1000), injection separations are in    *)
(* pixels, pxsc is in mas per pixel, and contrasts are positive integers   *)
(* or NaN.                                                                 *)

MaxInj == 2        \* longest seps_inject_rnd list

\* The separations of the raw curve, its contrast values, and the
\* separations of the injection lists.  The separations are 2 mas apart and
\* the contrasts even, so that the interpolation at an odd separation is an
\* integer.
RawSeps == <<2, 4, 6>>
ConValues == {NaN, 2, 4}
InjSeps == {1, 3, 7}
InjBarLists == {<<>>, <<3>>, <<7, 1>>}

\* np.interp(x, xp, fp) for increasing xp: the first and last value of fp
\* outside the range of xp, fp[j] at xp[j], and the line through the two
\* neighbours in between, which is NaN when one of them is.
interp(x, xp, fp) ==
    LET n == Len(xp)
    IN  IF x > xp[n] THEN fp[n]
        ELSE IF x < xp[1] THEN fp[1]
        ELSE LET j == CHOOSE k \in 1..n :
                        xp[k] <= x /\ (k < n => x < xp[k + 1])
             IN  IF j = n \/ xp[j] = x THEN fp[j]
                 ELSE IF fp[j] = NaN \/ fp[j + 1] = NaN THEN NaN
                 ELSE fp[j] + ((x - xp[j]) * (fp[j + 1] - fp[j]))
                                 \div (xp[j + 1] - xp[j])

\* (180/pi*3600*1000)^2, the mas^2 of a steradian, in a unit in which it is
\* a multiple of every pxsc^2 of the model.
Mas2PerSr == 3600

\* flux_inject = cons_inject*Fstar*(180./np.pi*3600.*1000.)**2/pxsc**2
\* with cons_inject = np.interp(...)*5.
flux_inject(con, Fstar, pxsc) ==
    IF con = NaN THEN NaN
    ELSE (con * 5) * Fstar * (Mas2PerSr \div (pxsc * pxsc))

\* a[good] for a boolean array good.
RECURSIVE Select(_, _)
Select(a, good) ==
    IF a = <<>> THEN <<>>
    ELSE IF Head(good) THEN <<Head(a)>> \o Select(Tail(a), Tail(good))
    ELSE Select(Tail(a), Tail(good))

\* pas_inject_rnd and pas_inject_bar (degrees).
PasRnd == <<0, 180>>
PasBar == <<90>>

\* Mutant: the separations are handed to inject_recover unfiltered.
injection_SepsUnfiltered(mask, pxsc, Fstar, seps, cons, seps_inject_rnd, seps_inject_bar) ==
    LET seps_inject == IF mask \in BarMasks THEN seps_inject_bar
                       ELSE seps_inject_rnd
        lookup == [i \in DOMAIN seps_inject |->
                      interp(seps_inject[i] * pxsc, seps, cons)]
        flux == [i \in DOMAIN seps_inject |->
                    flux_inject(lookup[i], Fstar, pxsc)]
        good == [i \in DOMAIN seps_inject |-> flux[i] # NaN]
    IN  [seps_inject |-> seps_inject, lookup |-> lookup, flux_inject |-> flux,
         good |-> good, flux |-> Select(flux, good),
         seps |-> seps_inject,
         pas |-> IF mask \in BarMasks THEN PasBar ELSE PasRnd]

\* The fluxes, separations and position angles handed to inject_recover.
injection(mask, pxsc, Fstar, seps, cons, seps_inject_rnd, seps_inject_bar) ==
    LET seps_inject == IF mask \in BarMasks THEN seps_inject_bar
                       ELSE seps_inject_rnd
        lookup == [i \in DOMAIN seps_inject |->
                      interp(seps_inject[i] * pxsc, seps, cons)]
        flux == [i \in DOMAIN seps_inject |->
                    flux_inject(lookup[i], Fstar, pxsc)]
        good == [i \in DOMAIN seps_inject |-> flux[i] # NaN]
    IN  [seps_inject |-> seps_inject, lookup |-> lookup, flux_inject |-> flux,
         good |-> good, flux |-> Select(flux, good),
         seps |-> Select(seps_inject, good),
         pas |-> IF mask \in BarMasks THEN PasBar ELSE PasRnd]

NoCalc == [op |-> "none", in |-> <<>>, out |-> <<>>]

CalcInit == calc = NoCalc

CalcInjection ==
    /\ calc.op = "none"
    /\ \E mask \in Masks, pxsc \in 1..MaxPxsc, Fstar \in {1, 2},
          cons \in [DOMAIN RawSeps -> ConValues],
          seps_inject_rnd \in SeqsUpTo(InjSeps, MaxInj),
          seps_inject_bar \in InjBarLists :
        calc' = [op |-> "injection",
                 in |-> [mask |-> mask, pxsc |-> pxsc, Fstar |-> Fstar,
                         seps |-> RawSeps, cons |-> cons,
                         seps_inject_rnd |-> seps_inject_rnd,
                         seps_inject_bar |-> seps_inject_bar],
                 out |-> injection(mask, pxsc, Fstar, RawSeps, cons,
                                   seps_inject_rnd, seps_inject_bar)]
    /\ UNCHANGED par

---------------------------------------------------------------------------
(* The table of the injection and recovery results, its grouping by        *)
(* separation and the medians of the groups.  A throughput is the fraction *)
(* <<flux_retr, flux>> in lowest terms; the injected fluxes are positive.  *)

MaxRows == 3       \* longest table of injection and recovery results

Rows == [flux : {1, 2}, seps : {3, 7}, pas : {0}, flux_retr : {0, 1, 3}]

RECURSIVE GCD(_, _)
GCD(a, b) == IF b = 0 THEN a ELSE GCD(b, a % b)

Reduce(q) ==
    LET g == GCD(q[1], q[2])
    IN  IF g = 0 THEN q ELSE <<q[1] \div g, q[2] \div g>>

Leq(p, q) == p[1] * q[2] <= q[1] * p[2]

\* res['tps'] = res['flux_retr']/res['flux']
tps(row) == Reduce(<<row.flux_retr, row.flux>>)

RECURSIVE Insert(_, _)
Insert(q, sorted) ==
    IF sorted = <<>> THEN <<q>>
    ELSE IF Leq(q, Head(sorted)) THEN <<q>> \o sorted
    ELSE <<Head(sorted)>> \o Insert(q, Tail(sorted))

RECURSIVE Sort(_)
Sort(a) == IF a = <<>> THEN <<>> ELSE Insert(Head(a), Sort(Tail(a)))

\* Mutant: the two middle values of an even number of values are added and
\* not halved.
nanmedian_SumOfMiddle(a) ==
    LET sorted == Sort(a)
        n == Len(a)
        lo == sorted[n \div 2]
        hi == sorted[(n \div 2) + 1]
    IN  IF n % 2 = 1 THEN sorted[(n + 1) \div 2]
        ELSE Reduce(<<lo[1] * hi[2] + hi[1] * lo[2], lo[2] * hi[2]>>)

\* Mutant: the middle values are taken in the order of the table.
nanmedian_Unsorted(a) ==
    LET n == Len(a)
        lo == a[n \div 2]
        hi == a[(n \div 2) + 1]
    IN  IF n % 2 = 1 THEN a[(n + 1) \div 2]
        ELSE Reduce(<<lo[1] * hi[2] + hi[1] * lo[2], 2 * lo[2] * hi[2]>>)

\* np.nanmedian of values none of which is NaN: the middle one of the
\* sorted values, or the mean of the two middle ones.
nanmedian(a) ==
    LET sorted == Sort(a)
        n == Len(a)
        lo == sorted[n \div 2]
        hi == sorted[(n \div 2) + 1]
    IN  IF n % 2 = 1 THEN sorted[(n + 1) \div 2]
        ELSE Reduce(<<lo[1] * hi[2] + hi[1] * lo[2], 2 * lo[2] * hi[2]>>)

\* The keys of res.group_by('seps'): the separations of the table, each
\* once, in increasing order.
RECURSIVE Ascending(_)
Ascending(S) ==
    IF S = {} THEN <<>>
    ELSE LET m == CHOOSE x \in S : \A y \in S : x <= y
         IN  <<m>> \o Ascending(S \ {m})

RECURSIVE Group(_, _)
Group(table, key) ==
    IF table = <<>> THEN <<>>
    ELSE IF Head(table).seps = key
         THEN <<Head(table)>> \o Group(Tail(table), key)
         ELSE Group(Tail(table), key)

\* med_res: the columns 'seps' and 'tps' of the aggregated table, which are
\* the ones handed to the fit.
aggregate(table) ==
    LET keys == Ascending({table[i].seps : i \in DOMAIN table})
    IN  [g \in DOMAIN keys |->
            LET rows == Group(table, keys[g])
            IN  [seps |-> keys[g],
                 tps |-> nanmedian([i \in DOMAIN rows |-> tps(rows[i])])]]

CalcAggregate ==
    /\ calc.op = "none"
    /\ \E table \in SeqsUpTo(Rows, MaxRows) :
        calc' = [op |-> "aggregate", in |-> [table |-> table],
                 out |-> aggregate(table)]
    /\ UNCHANGED par

---------------------------------------------------------------------------
(* The calibration of the raw curve with the fitted throughput.            *)

\* The throughput func(x, rr) at rr pixels, rr being the fraction
\* <<separation in mas, pxsc>>: the growth function in the limit of a sharp
\* transition, x.lo below x.mid pixels and x.hi from there on.
func(x, rr) == IF rr[1] < x.mid * rr[2] THEN x.lo ELSE x.hi

Fits == {[lo |-> <<1, 1>>, hi |-> <<1, 1>>, mid |-> 2],
         [lo |-> <<1, 2>>, hi |-> <<1, 1>>, mid |-> 2],
         [lo |-> <<1, 2>>, hi |-> <<2, 1>>, mid |-> 3]}

Quotient(con, tp) ==
    IF con = NaN THEN NaN ELSE (con * tp[2]) \div tp[1]

\* Mutant: the throughput is evaluated at the separations in arcsec.
calibrate_AtArcsec(cons, seps, pxsc, x) ==
    [corr_cons |-> [i \in DOMAIN cons |->
                       Quotient(cons[i], func(x, <<seps[i], 1000>>))],
     seps |-> seps,
     cons |-> cons,
     saved |-> {"-pp.npy"}]

\* corr_cons = cons/self.func(pp['x'], seps*1000./pxsc), the arrays seps and
\* cons after it, and the files np.save is called for from there on.
calibrate(cons, seps, pxsc, x) ==
    [corr_cons |-> [i \in DOMAIN cons |->
                       Quotient(cons[i], func(x, <<seps[i], pxsc>>))],
     seps |-> seps,
     cons |-> cons,
     saved |-> {"-pp.npy"}]

CalcCalibrate ==
    /\ calc.op = "none"
    /\ \E pxsc \in 1..MaxPxsc, x \in Fits,
          cons \in [DOMAIN RawSeps -> ConValues] :
        calc' = [op |-> "calibrate",
                 in |-> [pxsc |-> pxsc, x |-> x, seps |-> RawSeps,
                         cons |-> cons],
                 out |-> calibrate(cons, RawSeps, pxsc, x)]
    /\ UNCHANGED par

---------------------------------------------------------------------------
(* Coron1Pipeline.do_saturation.  groupdq has the axes (integration,       *)
(* group, y, x); the saturation step is not part of the repository: what   *)
(* is modelled is what do_saturation does to the groupdq it returns.       *)

MaxSat == 2        \* the saturation step flags at most MaxSat pixels

SATURATED == 2
JUMP_DET == 4

\* The shape of groupdq, and groupdq as it was before the saturation step.
SatShape == <<1, 2, 3, 3>>
SatIndex ==
    (0 .. (SatShape[1] - 1)) \X (0 .. (SatShape[2] - 1))
        \X (0 .. (SatShape[3] - 1)) \X (0 .. (SatShape[4] - 1))
GroupDq0 == [i \in SatIndex |-> IF i[3] = i[4] THEN JUMP_DET ELSE 0]

\* (a & flag) > 0 and a | flag for a flag of one bit.
HasFlag(a, flag) == (a \div flag) % 2 = 1
SetFlag(a, flag) == IF HasFlag(a, flag) THEN a ELSE a + flag

\* np.roll(mask, shift, axis) for axis -1 (x) and -2 (y).
roll(mask, shift, axis) ==
    [i \in SatIndex |->
        IF axis = -1
        THEN mask[<<i[1], i[2], i[3], (i[4] - shift) % SatShape[4]>>]
        ELSE mask[<<i[1], i[2], (i[3] - shift) % SatShape[3], i[4]>>]]

\* mask[:,:,row,:] = 0 and mask[:,:,:,col] = 0.
ZeroRow(mask, row) == [i \in SatIndex |-> IF i[3] = row THEN FALSE ELSE mask[i]]
ZeroCol(mask, col) == [i \in SatIndex |-> IF i[4] = col THEN FALSE ELSE mask[i]]

\* The groupdq do_saturation returns, from the groupdq the saturation step
\* returned (run with n_pix_grow_sat - 1).
do_saturation(groupdq) ==
    LET mask_sat == [i \in SatIndex |-> HasFlag(groupdq[i], SATURATED)]
        mask_vp1 == ZeroRow(roll(mask_sat, 1, -1), 0)
        mask_vm1 == ZeroRow(roll(mask_sat, -1, -1), SatShape[3] - 1)
        mask_hp1 == ZeroCol(roll(mask_sat, 1, -2), 0)
        mask_hm1 == ZeroCol(roll(mask_sat, -1, -2), SatShape[4] - 1)
    IN  [i \in SatIndex |->
            IF mask_sat[i] \/ mask_vp1[i] \/ mask_vm1[i] \/ mask_hp1[i]
                   \/ mask_hm1[i]
            THEN SetFlag(groupdq[i], SATURATED)
            ELSE groupdq[i]]

\* grow_diagonal is false and n_pix_grow_sat > 0.
CallDoSaturation ==
    /\ calc.op = "none"
    /\ \E flagged \in {S \in SUBSET SatIndex : Cardinality(S) <= MaxSat} :
        LET groupdq == [i \in SatIndex |->
                           IF i \in flagged
                           THEN SetFlag(GroupDq0[i], SATURATED)
                           ELSE GroupDq0[i]]
        IN  calc' = [op |-> "do_saturation", in |-> [groupdq |-> groupdq],
                     out |-> [groupdq |-> do_saturation(groupdq)]]
    /\ UNCHANGED par

---------------------------------------------------------------------------
(* Coron1Pipeline.do_nircam_refpix.  pixeldq has the axes (y, x); a pixel  *)
(* is the set of its DQ flags, so that a | flag is the union with {flag}   *)
(* and a & ~flag the difference.  The refpix step is not part of the       *)
(* repository: it is taken not to change pixeldq, and to return either its *)
(* input or a copy of it.                                                  *)

MaxRef == 2        \* nrow_ref is 0..MaxRef

RefRows == 3
DqFlags == {"REFERENCE_PIXEL", "DO_NOT_USE"}
Instruments == {"NIRCAM", "NIRISS"}
SubSizes == {320, 2048}

\* instrument.lower()
lower(name) == IF name = "NIRCAM" THEN "nircam" ELSE "niriss"

\* The rows of pixeldq[0:nrow_ref,:] and of pixeldq[-nrow_ref:,:].
TopRows(nrow_ref) == {r \in 0 .. (RefRows - 1) : r < nrow_ref}
BottomRows(nrow_ref) == {r \in 0 .. (RefRows - 1) : r >= RefRows - nrow_ref}

do_nircam_refpix(instrument, subsize, nrow_ref, pixeldq, copies) ==
    IF ~(lower(instrument) = "nircam" /\ subsize < 2048 /\ nrow_ref > 0)
    THEN [res |-> pixeldq, input |-> pixeldq]
    ELSE LET rows == TopRows(nrow_ref) \cup BottomRows(nrow_ref)
             set == [r \in DOMAIN pixeldq |->
                        IF r \in rows
                        THEN pixeldq[r] \cup {"REFERENCE_PIXEL"}
                        ELSE pixeldq[r]]
             cleared == [r \in DOMAIN pixeldq |->
                            IF r \in rows
                            THEN set[r] \ {"REFERENCE_PIXEL"}
                            ELSE set[r]]
         IN  [res |-> cleared, input |-> IF copies THEN set ELSE cleared]

CallDoNircamRefpix ==
    /\ calc.op = "none"
    /\ \E instrument \in Instruments, subsize \in SubSizes,
          nrow_ref \in 0..MaxRef, copies \in BOOLEAN,
          pixeldq \in [0 .. (RefRows - 1) -> SUBSET DqFlags] :
        calc' = [op |-> "do_nircam_refpix",
                 in |-> [instrument |-> instrument, subsize |-> subsize,
                         nrow_ref |-> nrow_ref, pixeldq |-> pixeldq,
                         copies |-> copies],
                 out |-> do_nircam_refpix(instrument, subsize, nrow_ref,
                                          pixeldq, copies)]
    /\ UNCHANGED par

---------------------------------------------------------------------------
(* Coron1Pipeline.run_step.  The keyword save_results is "None", "True" or *)
(* "False"; status is the cal_step entry of the result for the step; the   *)
(* step may raise instead of returning.                                    *)

StepNames == {"group_scale", "gain_scale", "ramp_fit", "jump"}

run_step(step, skip, save_results, save_intermediates, step_save_results, status, raises) ==
    LET asked == IF skip THEN FALSE
                 ELSE IF save_results # "None" THEN save_results = "True"
                 ELSE IF save_intermediates THEN TRUE
                 ELSE step_save_results
        really_save_results ==
            IF step \in {"group_scale", "gain_scale"} /\ status = "SKIPPED"
            THEN FALSE
            ELSE asked
        istuple == step = "ramp_fit" /\ ~skip
    IN  IF raises
        THEN [err |-> "Exception", saved |-> <<>>, step_save_results |-> FALSE]
        ELSE [err |-> "none",
              saved |-> IF ~really_save_results THEN <<>>
                        ELSE IF istuple THEN <<<<step, "0">>, <<step, "1">>>>
                        ELSE <<<<step, "">>>>,
              step_save_results |-> step_save_results]

CallRunStep ==
    /\ calc.op = "none"
    /\ \E step \in StepNames, skip \in BOOLEAN,
          save_results \in {"None", "True", "False"},
          save_intermediates \in BOOLEAN, step_save_results \in BOOLEAN,
          status \in {"COMPLETE", "SKIPPED"}, raises \in BOOLEAN :
        calc' = [op |-> "run_step",
                 in |-> [step |-> step, skip |-> skip,
                         save_results |-> save_results,
                         save_intermediates |-> save_intermediates,
                         step_save_results |-> step_save_results,
                         status |-> status, raises |-> raises],
                 out |-> run_step(step, skip, save_results,
                                  save_intermediates, step_save_results,
                                  status, raises)]
    /\ UNCHANGED par

---------------------------------------------------------------------------
(* get_transmission (psf.py).  A roll is a science row of obs: its         *)
(* MASKFILE, its integration time NINTS*EFFINTTM and the pixels of its     *)
(* transmission mask after nanrotate.  An output pixel is NaN or the       *)
(* fraction <<num, den>>.                                                  *)

MaxRolls == 2      \* science rolls of obs

TransPix == 1..2
TransValues == {NaN, 0, 1}
Rolls == [MASKFILE : {"NONE", "mask.fits"}, totint : {1, 2},
          mask : [TransPix -> TransValues]]

RECURSIVE SumOver(_, _)
SumOver(f, S) ==
    IF S = {} THEN 0
    ELSE LET j == CHOOSE k \in S : TRUE IN f[j] + SumOver(f, S \ {j})

NoTransmission == [none |-> TRUE, px |-> <<>>]

get_transmission(obs) ==
    IF \E j \in DOMAIN obs : obs[j].MASKFILE = "NONE"
    THEN NoTransmission
    ELSE LET totexp == SumOver([j \in DOMAIN obs |-> obs[j].totint], DOMAIN obs)
             nansum(p) ==
                 SumOver([j \in DOMAIN obs |->
                             IF obs[j].mask[p] = NaN THEN 0
                             ELSE obs[j].totint * obs[j].mask[p]],
                         DOMAIN obs)
         IN  [none |-> FALSE,
              px |-> [p \in TransPix |->
                         IF \A j \in DOMAIN obs : obs[j].mask[p] = NaN
                         THEN [nan |-> TRUE, num |-> 0, den |-> 1]
                         ELSE [nan |-> FALSE, num |-> nansum(p),
                               den |-> totexp]]]

CallGetTransmission ==
    /\ calc.op = "none"
    /\ \E obs \in SeqsUpTo(Rolls, MaxRolls) :
          /\ obs # <<>>
          /\ calc' = [op |-> "get_transmission", in |-> [obs |-> obs],
                      out |-> get_transmission(obs)]
    /\ UNCHANGED par

---------------------------------------------------------------------------
(* Two scenarios (mode, annuli, subsections, key) run side by side, each   *)
(* raw_contrast_curve and then cal_contrast_curve with overwrite, one file *)
(* access at a time.  A file name is the sequence of the strings it is     *)
(* concatenated from.                                                      *)

ParAnnuli == {1, 11}
ParSubsections == {1, 11}
ParKeys == {"F356W_MASK335R", "F444W_MASK335R"}
Items == AllModes \X ParAnnuli \X ParSubsections \X ParKeys

Digit == <<"0", "1", "2", "3", "4", "5", "6", "7", "8", "9">>

\* '%.0f' % n for a count n.
RECURSIVE Fmt0f(_)
Fmt0f(n) ==
    IF n < 10 THEN <<Digit[n + 1]>>
    ELSE Fmt0f(n \div 10) \o <<Digit[(n % 10) + 1]>>

\* Mutant: the directory name does not contain the number of subsections.
odir_NoSubsections(mode, annuli, subsections) ==
    <<"odir/", mode, "_annu">> \o Fmt0f(annuli) \o <<"/CONS/">>

\* odir = params.odir+mode+'_annu%.0f_subs%.0f/CONS/' % (annuli, subsections)
odir(mode, annuli, subsections) ==
    <<"odir/", mode, "_annu">> \o Fmt0f(annuli) \o <<"_subs">>
        \o Fmt0f(subsections) \o <<"/CONS/">>

FilePath(item, name) == odir(item[1], item[2], item[3]) \o <<item[4], name>>

\* The file accesses of raw_contrast_curve and then of cal_contrast_curve.
Steps ==
    << [op |-> "save", name |-> "-mask.pdf"],
       [op |-> "save", name |-> "-seps.npy"],
       [op |-> "save", name |-> "-cons.npy"],
       [op |-> "save", name |-> "-cons_raw.pdf"],
       [op |-> "load", name |-> "-seps.npy"],
       [op |-> "load", name |-> "-cons.npy"],
       [op |-> "save", name |-> "-flux_all.npy"],
       [op |-> "save", name |-> "-seps_all.npy"],
       [op |-> "save", name |-> "-pas_all.npy"],
       [op |-> "save", name |-> "-flux_retr_all.npy"],
       [op |-> "save", name |-> "-pp.npy"],
       [op |-> "save", name |-> "-cons_inj.pdf"],
       [op |-> "save", name |-> "-cons_cal.pdf"] >>

Done == Len(Steps) + 1

WrittenPaths(item) ==
    {FilePath(item, Steps[k].name) : k \in {j \in DOMAIN Steps : Steps[j].op = "save"}}

Absent == [by |-> <<>>, from |-> <<>>]

\* The next file access of task t.  What is saved is known by the scenario
\* that saves it and by the contents it has loaded; np.load of a file that
\* is not there raises, which ends the task.
Step(st, t) ==
    LET k == st.pos[t]
        path == FilePath(st.items[t], Steps[k].name)
    IN  IF Steps[k].op = "load"
        THEN IF st.fs[path] = Absent
             THEN [st EXCEPT !.pos[t] = Done]
             ELSE [st EXCEPT !.pos[t] = k + 1,
                             !.loaded[t] = Append(@, st.fs[path])]
        ELSE [st EXCEPT !.pos[t] = k + 1,
                        !.fs[path] = [by |-> st.items[t],
                                      from |-> st.loaded[t]]]

ParStart(a, b) ==
    [items |-> <<a, b>>, pos |-> <<1, 1>>, loaded |-> <<<<>>, <<>>>>,
     fs |-> [f \in WrittenPaths(a) \cup WrittenPaths(b) |-> Absent]]

NoPar == [items |-> <<>>, pos |-> <<>>, loaded |-> <<>>, fs |-> <<>>]

ParInit ==
    par \in {ParStart(q[1], q[2]) : q \in {r \in Items \X Items : r[1] # r[2]}}

ParStep ==
    /\ \E t \in 1..2 :
          /\ par.pos[t] < Done
          /\ par' = Step(par, t)
    /\ UNCHANGED calc

---------------------------------------------------------------------------
(* run_ramp_fitting and Coron1Pipeline.process (spaceKLIP/rampfit.py).     *)
(* run_ramp_fitting runs one new pipeline per file; ramp holds the position *)
(* of the loop, the handlers of the root logger, the file handlers that are *)
(* open, and the step calls of the exposure being processed, in order.     *)

MaxFiles == 2      \* glob finds at most MaxFiles files

RampInstruments == {"MIRI", "NIRCAM"}

\* The instrument-specific steps of process, in the order of the calls.
\* do_saturation and do_nircam_refpix call the saturation and refpix steps.
MiriSteps ==
    << "group_scale", "dq_init", "saturation", "ipc", "firstframe",
       "lastframe", "reset", "linearity", "rscd", "dark_current", "refpix" >>

NearIRSteps ==
    << "group_scale", "dq_init", "saturation", "ipc", "superbias", "refpix",
       "linearity", "persistence", "dark_current" >>

InstrumentSteps(instrument) ==
    IF instrument = "MIRI" THEN MiriSteps ELSE NearIRSteps

\* What pipeline.run can raise: an Exception, or a BaseException that is
\* not an Exception.
Exceptions == {"Exception", "KeyboardInterrupt"}

\* What the ramp_fit step returns: its input when it is skipped, else the
\* pair of the exposure-level and the multi-integration product.
RampFitResults(skip) ==
    IF skip THEN {"ramp"}
    ELSE {<<a, b>> : a \in {"None", "rate"}, b \in {"None", "rateints"}}

\* input, ints_model = (res, None) if self.ramp_fit.skip else res
Unpack(skip, res) == IF skip THEN <<res, "None">> ELSE res

NoRes == <<"None", "None">>

NoRamp ==
    [pc |-> "none", files |-> <<>>, i |-> 0, skip |-> FALSE, handlers |-> {},
     open |-> {}, created |-> 0, calls |-> <<>>, res |-> NoRes,
     exc |-> "none", err |-> "none"]

RampInit ==
    ramp \in {[NoRamp EXCEPT !.pc = "start", !.files = f] :
                 f \in SeqsUpTo(RampInstruments, MaxFiles)}

\* A step is called on a model; it returns, or it raises e and the call of
\* pipeline.run ends.
Call(step, on, next, e) ==
    [ramp EXCEPT !.calls = Append(@, [step |-> step, on |-> on]),
                 !.pc = IF e = "none" THEN next ELSE "finally",
                 !.exc = e]

\* files = glob.glob(idir+search), and the ValueError of an empty list.
RunGlob ==
    /\ ramp.pc = "start"
    /\ ramp' = IF Len(ramp.files) = 0
               THEN [ramp EXCEPT !.pc = "raised", !.err = "ValueError"]
               ELSE [ramp EXCEPT !.pc = "setup", !.i = 1]

\* The body of the loop up to the try statement: a new pipeline, its
\* settings, and the file handler added to the root logger.
RunSetUp ==
    /\ ramp.pc = "setup"
    /\ \E skip \in BOOLEAN :
          ramp' = [ramp EXCEPT !.pc = "branch",
                               !.skip = skip,
                               !.created = @ + 1,
                               !.handlers = @ \cup {ramp.i},
                               !.open = @ \cup {ramp.i},
                               !.calls = <<>>,
                               !.res = NoRes]

ProcessInstrument ==
    /\ ramp.pc = "branch"
    /\ LET steps == InstrumentSteps(ramp.files[ramp.i])
           k == Len(ramp.calls) + 1
       IN  \E e \in {"none"} \cup Exceptions :
              ramp' = Call(steps[k], "ramp",
                           IF k = Len(steps) THEN "jump" ELSE "branch", e)

ProcessJump ==
    /\ ramp.pc = "jump"
    /\ \E e \in {"none"} \cup Exceptions :
          ramp' = Call("jump", "ramp", "ramp_fit", e)

ProcessRampFit ==
    /\ ramp.pc = "ramp_fit"
    /\ \/ \E res \in RampFitResults(ramp.skip) :
             ramp' = [Call("ramp_fit", "ramp", "gain_scale", "none")
                         EXCEPT !.res = Unpack(ramp.skip, res)]
       \/ \E e \in Exceptions :
             ramp' = Call("ramp_fit", "ramp", "gain_scale", e)

\* gain_scale on the exposure-level product.
ProcessGainScale ==
    /\ ramp.pc = "gain_scale"
    /\ IF ramp.res[1] = "None"
       THEN ramp' = [ramp EXCEPT !.pc = "gain_scale_ints"]
       ELSE \E e \in {"none"} \cup Exceptions :
               ramp' = Call("gain_scale", ramp.res[1], "gain_scale_ints", e)

ProcessGainScaleInts_Unconditional ==
    /\ ramp.pc = "gain_scale_ints"
    /\ \E e \in {"none"} \cup Exceptions :
          ramp' = Call("gain_scale", "rateints", "finally", e)

\* gain_scale on the multi-integration product; then process returns.
ProcessGainScaleInts ==
    /\ ramp.pc = "gain_scale_ints"
    /\ IF ramp.res[2] = "None"
       THEN ramp' = [ramp EXCEPT !.pc = "finally"]
       ELSE \E e \in {"none"} \cup Exceptions :
               ramp' = Call("gain_scale", ramp.res[2], "finally", e)

RunFinally_OnlyOnSuccess ==
    /\ ramp.pc = "finally"
    /\ LET more == ramp.exc = "none" /\ ramp.i < Len(ramp.files)
           left == IF ramp.exc = "none" THEN {ramp.i} ELSE {}
       IN  ramp' = [ramp EXCEPT
                       !.handlers = @ \ left,
                       !.open = @ \ left,
                       !.err = IF ramp.exc = "Exception" THEN "RuntimeError"
                               ELSE ramp.exc,
                       !.pc = IF ramp.exc # "none" THEN "raised"
                              ELSE IF more THEN "setup" ELSE "returned",
                       !.i = IF more THEN @ + 1 ELSE @]

\* The except and finally clauses: the handler is removed and closed, an
\* Exception leaves as a RuntimeError, and the loop goes to the next file
\* only when nothing was raised.
RunFinally ==
    /\ ramp.pc = "finally"
    /\ LET more == ramp.exc = "none" /\ ramp.i < Len(ramp.files)
       IN  ramp' = [ramp EXCEPT
                       !.handlers = @ \ {ramp.i},
                       !.open = @ \ {ramp.i},
                       !.err = IF ramp.exc = "Exception" THEN "RuntimeError"
                               ELSE ramp.exc,
                       !.pc = IF ramp.exc # "none" THEN "raised"
                              ELSE IF more THEN "setup" ELSE "returned",
                       !.i = IF more THEN @ + 1 ELSE @]

---------------------------------------------------------------------------
(* Specifications.                                                         *)

FixedMask ==
    /\ cube = MkCube({})
    /\ margs = NoCall
    /\ masked = NoArray
    /\ merr = "none"
    /\ mnew = FALSE

FixedCalc == calc = NoCalc /\ par = NoPar /\ ramp = NoRamp

FixedPipe ==
    /\ modes = <<"ADI">>
    /\ files = [p \in Paths |-> [n \in Names |-> NoFile]]
    /\ fits = Paths
    /\ pc = "idle"
    /\ job = [op |-> "none", ver |-> 0, KL |-> 0, overwrite |-> FALSE]
    /\ idx = 1
    /\ mem = EmptyMem
    /\ nrun = 0

\* A configuration with one processing mode.
Init == PipeInit(<<"ADI">>) /\ FixedMask /\ FixedCalc

Next ==
    \/ StartRaw
    \/ RawStep
    \/ StartCal
    \/ CalLoad
    \/ CalInject
    \/ CalSaveFlux
    \/ CalSaveSeps
    \/ CalSavePas
    \/ CalSaveRetr
    \/ CalFit
    \/ Interrupt

Spec == Init /\ [][Next]_vars

\* A configuration with two processing modes.
InitBatch == PipeInit(<<"ADI", "RDI">>) /\ FixedMask /\ FixedCalc

SpecBatch == InitBatch /\ [][Next]_vars

InitMask == MaskInit /\ FixedPipe /\ FixedCalc

NextMask ==
    \/ CallMaskCompanions /\ UNCHANGED <<pipevars, calc, par, ramp>>
    \/ CallMaskBar /\ UNCHANGED <<pipevars, calc, par, ramp>>
    \/ CallRawMasking /\ UNCHANGED <<pipevars, calc, par, ramp>>

SpecMask == InitMask /\ [][NextMask]_vars

InitCalc == CalcInit /\ par = NoPar /\ ramp = NoRamp /\ FixedMask /\ FixedPipe

NextCalc ==
    \/ CalcInjection /\ UNCHANGED <<maskvars, pipevars, ramp>>
    \/ CalcAggregate /\ UNCHANGED <<maskvars, pipevars, ramp>>
    \/ CalcCalibrate /\ UNCHANGED <<maskvars, pipevars, ramp>>

SpecCalc == InitCalc /\ [][NextCalc]_vars

InitPar == ParInit /\ calc = NoCalc /\ ramp = NoRamp /\ FixedMask /\ FixedPipe

NextPar == ParStep /\ UNCHANGED <<maskvars, pipevars, ramp>>

SpecPar == InitPar /\ [][NextPar]_vars

NextStep ==
    \/ CallDoSaturation /\ UNCHANGED <<maskvars, pipevars, ramp>>
    \/ CallDoNircamRefpix /\ UNCHANGED <<maskvars, pipevars, ramp>>
    \/ CallRunStep /\ UNCHANGED <<maskvars, pipevars, ramp>>

SpecStep == InitCalc /\ [][NextStep]_vars

NextPsf == CallGetTransmission /\ UNCHANGED <<maskvars, pipevars, ramp>>

SpecPsf == InitCalc /\ [][NextPsf]_vars

InitRun == RampInit /\ calc = NoCalc /\ par = NoPar /\ FixedMask /\ FixedPipe

NextRun ==
    \/ RunGlob /\ UNCHANGED <<maskvars, pipevars, calc, par>>
    \/ RunSetUp /\ UNCHANGED <<maskvars, pipevars, calc, par>>
    \/ ProcessInstrument /\ UNCHANGED <<maskvars, pipevars, calc, par>>
    \/ ProcessJump /\ UNCHANGED <<maskvars, pipevars, calc, par>>
    \/ ProcessRampFit /\ UNCHANGED <<maskvars, pipevars, calc, par>>
    \/ ProcessGainScale /\ UNCHANGED <<maskvars, pipevars, calc, par>>
    \/ ProcessGainScaleInts /\ UNCHANGED <<maskvars, pipevars, calc, par>>
    \/ RunFinally /\ UNCHANGED <<maskvars, pipevars, calc, par>>

SpecRun == InitRun /\ [][NextRun]_vars

---------------------------------------------------------------------------
(* Properties of the mask functions (SpecMask).                            *)

BarCallNoRanges ==
    /\ margs.op = "mask_bar"
    /\ margs.pa_ranges_bar = <<>>
    /\ merr = "none"

SourceDist2(x, y, s) ==
    LET sx == margs.cent[1] * margs.pxsc - margs.ra_off[s]
        sy == margs.cent[2] * margs.pxsc + margs.de_off[s]
    IN  Sq(x * margs.pxsc - sx) + Sq(y * margs.pxsc - sy)

Radius2 == Sq(margs.mrad * margs.pxsc)

Sources == 1..ZipLen(margs.ra_off, margs.de_off)

CompanionsCall == margs.op = "mask_companions" /\ merr = "none"

\* C2: in the cube mask_companions returns, every pixel strictly inside the
\* exclusion radius of some source is NaN in all frames, and every pixel
\* strictly outside all exclusion radii equals the input pixel.
C2_CompanionsMasked ==
    CompanionsCall =>
        \A i \in DOMAIN cube.px :
            /\ (\E s \in Sources : SourceDist2(i[3], i[2], s) < Radius2)
                   => masked.px[i] = NaN
            /\ (\A s \in Sources : SourceDist2(i[3], i[2], s) > Radius2)
                   => masked.px[i] = cube.px[i]

C2_Witness ==
    /\ CompanionsCall
    /\ ZipLen(margs.ra_off, margs.de_off) = 2
    /\ \E i \in DOMAIN cube.px :
          /\ cube.px[i] # NaN
          /\ SourceDist2(i[3], i[2], 1) > Radius2
          /\ SourceDist2(i[3], i[2], 2) < Radius2
    /\ \E i \in DOMAIN cube.px :
          /\ cube.px[i] # NaN
          /\ \A s \in Sources : SourceDist2(i[3], i[2], s) > Radius2

MaskCall == margs.op \in {"mask_companions", "mask_bar"}

\* C11: mask_companions and mask_bar each fail on an input that does not
\* have exactly 3 dimensions (they raise UserWarning('Data has invalid
\* shape')) and return no masked array then; a 3-D input does not fail.
C11_NonCubeRaises ==
    MaskCall =>
        IF Len(cube.shape) # 3
        THEN merr = "UserWarning" /\ masked = NoArray
        ELSE merr = "none" /\ masked # NoArray

C11_Witness ==
    /\ margs.op = "mask_bar"
    /\ margs.pa_ranges_bar # <<>>
    /\ Len(cube.shape) = 4
    /\ merr = "UserWarning"

BarCallFullCircle ==
    /\ margs.op = "mask_bar"
    /\ margs.pa_ranges_bar = << <<0, 360>> >>
    /\ merr = "none"

\* C12: mask_bar with the single range (0, 360) returns a cube equal to the
\* input cube at every pixel, whatever the center.
C12_FullCircleIdentity ==
    BarCallFullCircle => masked = cube

\* The center is a pixel of the frame (angle 0 there) and the frame has
\* pixels straight above it (angle 0 as well).
C12_Witness ==
    /\ BarCallFullCircle
    /\ margs.cent = <<1, 0>>
    /\ \E i \in DOMAIN cube.px : cube.px[i] = NaN

\* C13: mask_companions and mask_bar are pure: a call leaves the input
\* cube as it was, and the array it returns is a new object.
C13_Step ==
    (margs.op = "none" /\ margs'.op \in {"mask_companions", "mask_bar"})
        => /\ cube' = cube
           /\ merr' = "none" => mnew'

C13_MaskFunctionsPure == [][C13_Step]_vars

C13_Witness ==
    /\ margs.op = "mask_companions"
    /\ merr = "none"
    /\ mnew
    /\ \E i \in DOMAIN cube.px : cube.px[i] # NaN /\ masked.px[i] = NaN

\* The position angle of pixel i lies in some range of the call, bounds
\* included.
InSomeRange(i) ==
    LET tt == AngleCode(i[3] - margs.cent[1], i[2] - margs.cent[2])
    IN  \E r \in 1..Len(margs.pa_ranges_bar) :
            /\ DegCode(margs.pa_ranges_bar[r][1]) <= tt
            /\ tt <= DegCode(margs.pa_ranges_bar[r][2])

InSomeCircle(i) ==
    \E s \in Sources : SourceDist2(i[3], i[2], s) <= Radius2

RawMaskingCall == margs.op = "raw_contrast_curve" /\ merr = "none"

BarApplies == margs.mask \in BarMasks /\ margs.pa_ranges_bar # <<>>

\* C19: raw_contrast_curve masks the companions and then, for the masks
\* MASKASWB and MASKALWB only, the bar: a pixel keeps its value exactly
\* when it is outside every companion circle and, for a bar mask with a
\* non-empty range list, inside at least one range; otherwise it is NaN,
\* so the bar never restores a pixel that a companion invalidated.
C19_CompanionsThenBar ==
    RawMaskingCall =>
        \A i \in DOMAIN cube.px :
            masked.px[i] =
                IF ~InSomeCircle(i) /\ (BarApplies => InSomeRange(i))
                THEN cube.px[i]
                ELSE NaN

C19_Witness ==
    /\ RawMaskingCall
    /\ BarApplies
    /\ \E i \in DOMAIN cube.px :
          cube.px[i] # NaN /\ InSomeCircle(i) /\ InSomeRange(i)
    /\ \E i \in DOMAIN cube.px :
          cube.px[i] # NaN /\ ~InSomeCircle(i) /\ ~InSomeRange(i)
    /\ \E i \in DOMAIN cube.px : masked.px[i] # NaN

BarCallWithRanges ==
    /\ margs.op = "mask_bar"
    /\ margs.pa_ranges_bar # <<>>
    /\ merr = "none"

\* C20: for a non-empty range list, mask_bar keeps a pixel (equal to the
\* input) exactly when its position angle, in [0, 360), satisfies
\* low <= angle <= high for at least one range; every other pixel is NaN
\* in all frames.
C20_KeptIffInSomeRange ==
    BarCallWithRanges =>
        \A i \in DOMAIN cube.px :
            masked.px[i] = IF InSomeRange(i) THEN cube.px[i] ELSE NaN

\* Two ranges; a pixel on the upper bound of one of them is kept, and a
\* valid pixel outside both is invalidated.
C20_Witness ==
    /\ BarCallWithRanges
    /\ Len(margs.pa_ranges_bar) = 2
    /\ \E i \in DOMAIN cube.px, r \in 1..2 :
          /\ AngleCode(i[3] - margs.cent[1], i[2] - margs.cent[2])
                 = DegCode(margs.pa_ranges_bar[r][2])
          /\ masked.px[i] = cube.px[i]
          /\ cube.px[i] # NaN
    /\ \E i \in DOMAIN cube.px : cube.px[i] # NaN /\ ~InSomeRange(i)

---------------------------------------------------------------------------
(* Properties of cal_contrast_curve and raw_contrast_curve (Spec, and      *)
(* SpecBatch for a configuration with two scenarios).                      *)

Columns == {"flux_all", "seps_all", "pas_all", "flux_retr_all"}

InCal == job.op = "cal"

\* The iteration is about to load, its input files are there, and reuse of
\* the table was asked for.
AtCacheCheck ==
    /\ InCal
    /\ pc = "load"
    /\ job.overwrite = FALSE
    /\ Here \in fits
    /\ Loadable(files[Here]["seps"])
    /\ Loadable(files[Here]["cons"])

TableComplete(p) == \A n \in Columns : Loadable(files[p][n])

\* The iteration uses a table it loaded instead of computing one.
ReusesTable == InCal /\ pc = "fit" /\ ~mem.todo

\* C3: with overwrite=false and a complete table on disk, the iteration
\* goes from the cache check to the fit without calling inject_recover, and
\* no step of it changes one of the four table artifacts.
C3_Step ==
    /\ (AtCacheCheck /\ TableComplete(Here) /\ pc' # "interrupted")
           => (pc' = "fit" /\ ~mem'.todo)
    /\ ((AtCacheCheck /\ TableComplete(Here)) \/ ReusesTable)
           => \A p \in Paths, n \in Columns : files'[p][n] = files[p][n]

\* C3: every step of every behaviour satisfies C3_Step (reuse of a complete
\* table with overwrite=false never calls inject_recover and leaves the four
\* table artifacts unchanged).
C3_ReuseIsNoOp == [][C3_Step]_vars

C3_Witness ==
    /\ InCal
    /\ pc = "done"
    /\ job.overwrite = FALSE
    /\ ~mem.todo
    /\ TableComplete(PathOf(Batch[1]))

\* C4 as stated: a table reused by a call for KL index k was produced for
\* KL index k.
C4_ReusedTableIsForSameKL ==
    ReusesTable => \A n \in Columns : mem.table[n].KL = job.KL

\* C5 as stated: a table that is loaded and used as complete never has
\* columns that come from different runs.
C5_ReusedTableIsFromOneRun ==
    ReusesTable =>
        \A n, m \in Columns : mem.table[n].run = mem.table[m].run

\* C6: with overwrite=false and a table artifact missing or unloadable, the
\* iteration does not fail but goes on to inject_recover, and when it
\* reaches the fit all four table artifacts are the ones of this call.
C6_Step ==
    /\ (AtCacheCheck /\ ~TableComplete(Here) /\ pc' # "interrupted")
           => (pc' = "inject" /\ mem'.todo)
    /\ (InCal /\ pc # "fit" /\ pc' = "fit" /\ mem'.todo)
           => \A n \in Columns :
                 /\ files'[Here][n] = mem'.table[n]
                 /\ Loadable(files'[Here][n])
                 /\ files'[Here][n].run = nrun

\* C6: every step of every behaviour satisfies C6_Step (a missing or
\* unloadable table artifact leads to recomputation, not to a failure).
C6_MissingTableRecomputed == [][C6_Step]_vars

C6_Witness ==
    /\ InCal
    /\ pc = "fit"
    /\ mem.todo
    /\ job.overwrite = FALSE
    /\ nrun >= 2
    /\ \A n \in Columns : files[Here][n] = mem.table[n]

\* C7 as stated: when the fit has not converged the call has failed, and
\* the parameter vector of that fit is not persisted.
C7_NonConvergenceSurfaced ==
    (InCal /\ mem.pp.success = FALSE) =>
        /\ pc = "failed"
        /\ \A p \in Paths : files[p]["pp"] # mem.pp.x

\* C8 as stated: a batch does not end with a failure while a later
\* scenario, whose input is there, has not been processed.
C8_FailureDoesNotAbortSiblings ==
    ~(/\ pc = "failed"
      /\ \E n \in (idx + 1)..Len(Batch) : PathOf(Batch[n]) \in fits)

\* C9 as stated: after a completed cal_contrast_curve call, every named
\* artifact (raw separations and contrasts, the four table columns, the
\* parameter vector, the calibrated contrast) exists for every scenario and
\* key of the batch.
C9_AllArtifactsPersisted ==
    (InCal /\ pc = "done") =>
        \A p \in BatchPaths, n \in Names : Loadable(files[p][n])

PersistedTable(p) == [n \in Columns |-> files[p][n]]

\* C10: after a completed cal_contrast_curve call, the persisted parameter
\* vector of every scenario and key of the batch is the fit of the table
\* persisted at that moment.
C10_ParametersFitPersistedTable ==
    (InCal /\ pc = "done") =>
        \A p \in BatchPaths :
            /\ TableComplete(p)
            /\ files[p]["pp"] = least_squares(PersistedTable(p), TRUE).x

C10_Witness ==
    /\ InCal
    /\ pc = "done"
    /\ ~mem.todo
    /\ files[Here]["flux_all"].run # files[Here]["flux_retr_all"].run
    /\ files[Here]["pp"] = least_squares(PersistedTable(Here), TRUE).x

\* The fit step of an iteration of cal_contrast_curve.
FitStep == InCal /\ pc = "fit" /\ pc' # "interrupted"

\* C22: the calibrated curve of an iteration is computed from the raw curve
\* persisted at that moment, for the KL index of the call, and from the
\* parameters fitted in that iteration to the table it uses; neither the
\* persisted parameters nor an earlier calibrated curve are used.
C22_Step ==
    FitStep =>
        /\ mem'.pp.x = least_squares(mem.table, TRUE).x
        /\ mem'.corr_cons =
              Calibrate(files[Here]["cons"].ver, job.KL, mem'.pp.x)
        /\ files[Here]["seps"] = files[Here]["cons"]

C22_FreshCalibration == [][C22_Step]_vars

\* A calibrated curve of the second raw curve, with a reused table and
\* with parameters persisted by an earlier call.
C22_Witness ==
    /\ InCal
    /\ pc = "done"
    /\ ~mem.todo
    /\ nrun > 1
    /\ mem.corr_cons.kind = "npy"
    /\ mem.corr_cons.raw = 2
    /\ mem.corr_cons.x = mem.pp.x

\* C23 as stated: the persisted table of a scenario and key is the one of
\* the raw curve persisted now: the injected fluxes of its rows are those of
\* that raw curve.
C23_TableOfCurrentRawCurve ==
    pc \in Terminal =>
        \A p \in Paths :
            (TableComplete(p) /\ Loadable(files[p]["cons"]))
                => \A n \in Columns : files[p][n].raw = files[p]["cons"].ver

RawMissing ==
    /\ InCal
    /\ pc = "load"
    /\ Here \in fits
    /\ ~(Loadable(files[Here]["seps"]) /\ Loadable(files[Here]["cons"]))

\* C24: an iteration of cal_contrast_curve whose raw separations or
\* contrasts are not there fails at their np.load: inject_recover is not
\* called, the cache is not looked at and no file is written; an iteration
\* that goes on to the cache check or the injection has loaded them.
C24_Step ==
    /\ (RawMissing /\ pc' # "interrupted")
           => /\ pc' = "failed"
              /\ mem'.err = "FileNotFoundError"
              /\ mem'.table = mem.table
              /\ mem'.todo = mem.todo
              /\ files' = files
    /\ (InCal /\ pc = "load" /\ pc' \in {"inject", "fit"})
           => /\ Loadable(mem'.raw)
              /\ mem'.raw = files[Here]["cons"]

C24_RawCurveRequired == [][C24_Step]_vars

C24_Witness ==
    /\ InCal
    /\ pc = "failed"
    /\ Here \in fits
    /\ ~Loadable(files[Here]["cons"])
    /\ mem.err = "FileNotFoundError"
    /\ \A n \in Names : files[Here][n] = NoFile

---------------------------------------------------------------------------
(* Properties of the computations of cal_contrast_curve (SpecCalc).        *)

InjectionCalc == calc.op = "injection"

\* Injection separation i, in mas, lies outside the separations of the raw
\* curve.
OutOfRange(i) ==
    LET x == calc.out.seps_inject[i] * calc.in.pxsc
    IN  x < calc.in.seps[1] \/ x > calc.in.seps[Len(calc.in.seps)]

\* C14: the lookup of the raw contrast curve at an injection separation
\* outside the sampled separations of the raw curve yields NaN, and that
\* separation is filtered out before the injection.
C14_OutOfRangeLookupIsNaN ==
    InjectionCalc =>
        \A i \in DOMAIN calc.out.seps_inject :
            OutOfRange(i) => calc.out.lookup[i] = NaN /\ ~calc.out.good[i]

\* The injection list the mask selects, and the indices of its separations
\* at which the raw curve, interpolated, is not NaN.
ListUsed ==
    IF calc.in.mask \in BarMasks THEN calc.in.seps_inject_bar
    ELSE calc.in.seps_inject_rnd

RawAt(sep) == interp(sep * calc.in.pxsc, calc.in.seps, calc.in.cons)

Kept == {i \in DOMAIN ListUsed : RawAt(ListUsed[i]) # NaN}

Nth(k) == CHOOSE i \in Kept : Cardinality({j \in Kept : j < i}) = k - 1

\* C21: the fluxes and separations handed to inject_recover are aligned:
\* they are the separations of the list in use at which the interpolated
\* raw contrast is not NaN, in order, each with the flux 5 times that
\* contrast converted to MJy/sr; the list in use, and the position angles,
\* are the bar ones for MASKASWB and MASKALWB and the round ones otherwise.
C21_InjectedFluxesAligned ==
    InjectionCalc =>
        /\ Len(calc.out.seps) = Cardinality(Kept)
        /\ Len(calc.out.flux) = Cardinality(Kept)
        /\ \A k \in 1..Cardinality(Kept) :
              /\ calc.out.seps[k] = ListUsed[Nth(k)]
              /\ calc.out.flux[k] # NaN
              /\ calc.out.flux[k] * calc.in.pxsc * calc.in.pxsc
                    = 5 * RawAt(calc.out.seps[k]) * calc.in.Fstar * Mas2PerSr
        /\ calc.out.pas = IF calc.in.mask \in BarMasks THEN PasBar ELSE PasRnd

\* A bar mask whose list has two separations, the first one kept and the
\* second one dropped, and a round list that differs from it.
C21_Witness ==
    /\ InjectionCalc
    /\ calc.in.mask \in BarMasks
    /\ calc.in.seps_inject_rnd # calc.in.seps_inject_bar
    /\ Len(ListUsed) = 2
    /\ Kept = {1}
    /\ calc.out.seps = <<ListUsed[1]>>

CalibrateCalc == calc.op = "calibrate"

\* The throughput at the separation of raw sample i, in pixels.
ThroughputAt(i) == func(calc.in.x, <<calc.in.seps[i], calc.in.pxsc>>)

\* C15: the calibration gives one value per raw sample, the raw contrast
\* divided by the throughput at that sample's separation in pixels (NaN
\* where the raw contrast is NaN), equal to the raw contrast where the
\* throughput is 1; the raw separations and contrasts are left as loaded
\* and their files are not saved again.
C15_CalibrationDividesByThroughput ==
    CalibrateCalc =>
        /\ DOMAIN calc.out.corr_cons = DOMAIN calc.in.cons
        /\ \A i \in DOMAIN calc.in.cons :
              LET tp == ThroughputAt(i)
                  raw == calc.in.cons[i]
                  cal == calc.out.corr_cons[i]
              IN  /\ raw = NaN => cal = NaN
                  /\ raw # NaN => cal # NaN /\ cal * tp[1] = raw * tp[2]
                  /\ tp = <<1, 1>> => cal = raw
        /\ calc.out.seps = calc.in.seps
        /\ calc.out.cons = calc.in.cons
        /\ calc.out.saved \cap {"-seps.npy", "-cons.npy"} = {}

C15_Witness ==
    /\ CalibrateCalc
    /\ \E i, j \in DOMAIN calc.in.cons :
          /\ calc.in.cons[i] # NaN
          /\ calc.in.cons[j] # NaN
          /\ ThroughputAt(i) = <<1, 2>>
          /\ ThroughputAt(j) = <<1, 1>>
          /\ calc.out.corr_cons[i] = 2 * calc.in.cons[i]
          /\ calc.out.corr_cons[j] = calc.in.cons[j]
    /\ calc.in.pxsc > 1

AggregateCalc == calc.op = "aggregate"

\* The trials of the table at separation sep.
Trials(sep) == {i \in DOMAIN calc.in.table : calc.in.table[i].seps = sep}

Throughput(i) == <<calc.in.table[i].flux_retr, calc.in.table[i].flux>>

\* C16: the trials are grouped by equal separation, one group for each
\* separation of the table, and the throughput of a group lies between the
\* smallest and the largest throughput flux_retr/flux of its trials.
C16_MedianWithinGroupRange ==
    AggregateCalc =>
        /\ \A i \in DOMAIN calc.in.table :
              \E g \in DOMAIN calc.out :
                  calc.out[g].seps = calc.in.table[i].seps
        /\ \A g, h \in DOMAIN calc.out :
              calc.out[g].seps = calc.out[h].seps => g = h
        /\ \A g \in DOMAIN calc.out :
              /\ Trials(calc.out[g].seps) # {}
              /\ \E i \in Trials(calc.out[g].seps) :
                    Leq(Throughput(i), calc.out[g].tps)
              /\ \E i \in Trials(calc.out[g].seps) :
                    Leq(calc.out[g].tps, Throughput(i))

\* Two groups, one of them of two trials with the median strictly between
\* their throughputs.
C16_Witness ==
    /\ AggregateCalc
    /\ Len(calc.out) = 2
    /\ \E g \in DOMAIN calc.out :
          /\ Cardinality(Trials(calc.out[g].seps)) = 2
          /\ \E i, j \in Trials(calc.out[g].seps) :
                /\ ~Leq(calc.out[g].tps, Throughput(i))
                /\ ~Leq(Throughput(j), calc.out[g].tps)

Permuted(table, perm) == [i \in DOMAIN table |-> table[perm[i]]]

\* C17: the aggregated pairs (separation, median throughput) are the same
\* for every permutation of the rows of the table.
C17_AggregationIgnoresRowOrder ==
    AggregateCalc =>
        \A perm \in Permutations(DOMAIN calc.in.table) :
            aggregate(Permuted(calc.in.table, perm)) = calc.out

\* Three trials at one separation, not in the order of their throughputs,
\* the first one being the median.
C17_Witness ==
    /\ AggregateCalc
    /\ Len(calc.in.table) = 3
    /\ Len(calc.out) = 1
    /\ ~Leq(Throughput(1), Throughput(2))
    /\ ~Leq(Throughput(3), Throughput(1))
    /\ calc.out[1].tps = tps(calc.in.table[1])

---------------------------------------------------------------------------
(* Properties of scenarios run side by side (SpecPar).                     *)

RECURSIVE RunTask(_, _)
RunTask(st, t) == IF st.pos[t] = Done THEN st ELSE RunTask(Step(st, t), t)

\* The files after the two scenarios have run one after the other.
Serial(first, second) ==
    RunTask(RunTask(ParStart(par.items[1], par.items[2]), first), second).fs

BothDone == par.pos = <<Done, Done>>

---------------------------------------------------------------------------
(* Properties of Coron1Pipeline (SpecStep).                                *)

SaturationCall == calc.op = "do_saturation"

FlaggedByStep(i) == HasFlag(calc.in.groupdq[i], SATURATED)

\* The horizontal and vertical neighbours of pixel i inside the array, in
\* the same integration and group.
Neighbours(i) ==
    {j \in SatIndex :
        /\ j[1] = i[1]
        /\ j[2] = i[2]
        /\ \/ j[3] = i[3] /\ (j[4] = i[4] + 1 \/ j[4] = i[4] - 1)
           \/ j[4] = i[4] /\ (j[3] = i[3] + 1 \/ j[3] = i[3] - 1)}

\* C25: do_saturation (grow_diagonal false, n_pix_grow_sat > 0) gives the
\* SATURATED bit to a pixel the saturation step did not flag only if one of
\* its horizontal or vertical neighbours inside the array, in the same
\* integration and group, was flagged: nothing wraps around to the
\* opposite edge.
C25_GrowsToNeighboursOnly ==
    SaturationCall =>
        \A i \in SatIndex :
            (~FlaggedByStep(i) /\ HasFlag(calc.out.groupdq[i], SATURATED))
                => \E j \in Neighbours(i) : FlaggedByStep(j)

RefpixCall ==
    /\ calc.op = "do_nircam_refpix"
    /\ calc.in.instrument = "NIRCAM"
    /\ calc.in.subsize < 2048
    /\ calc.in.nrow_ref > 0

\* C26: for a NIRCam subarray with nrow_ref > 0 (and a refpix step that
\* does not change pixeldq), the pixeldq do_nircam_refpix returns is the
\* one it was given: the REFERENCE_PIXEL bit of every pixel of the top and
\* bottom nrow_ref rows, and every other bit, is as before the call.
C26_PixelDqRestored ==
    RefpixCall => calc.out.res = calc.in.pixeldq

RunStepCall == calc.op = "run_step"

\* The precedence: the keyword, then save_intermediates, then the step's
\* own save_results.
SaveAsked ==
    IF calc.in.save_results # "None" THEN calc.in.save_results = "True"
    ELSE calc.in.save_intermediates \/ calc.in.step_save_results

ReportsSkipped ==
    /\ calc.in.step \in {"group_scale", "gain_scale"}
    /\ calc.in.status = "SKIPPED"

\* C27: run_step never saves the result of a step whose skip flag is set,
\* nor of group_scale or gain_scale reporting SKIPPED; otherwise it saves
\* when the keyword save_results, else save_intermediates, else the step's
\* save_results says so; and in all cases the step's save_results is after
\* the call what it was before.
C27_RunStepSavesAndRestores ==
    RunStepCall =>
        /\ calc.out.step_save_results = calc.in.step_save_results
        /\ calc.out.err = "none" =>
              (calc.out.saved # <<>>) =
                  (~calc.in.skip /\ ~ReportsSkipped /\ SaveAsked)

---------------------------------------------------------------------------
(* Properties of get_transmission (SpecPsf).                               *)

TransmissionCall == calc.op = "get_transmission"

\* The rolls in which pixel p is valid.
ValidRolls(p) ==
    {j \in DOMAIN calc.in.obs : calc.in.obs[j].mask[p] # NaN}

\* C30: get_transmission returns None if a science roll has no mask file;
\* otherwise a pixel is NaN exactly when it is NaN in every roll, and every
\* other pixel is the average of its transmission over the rolls in which
\* it is valid, weighted by their integration times.
C30_WeightedAverageOverValidRolls ==
    TransmissionCall =>
        IF \E j \in DOMAIN calc.in.obs : calc.in.obs[j].MASKFILE = "NONE"
        THEN calc.out = NoTransmission
        ELSE /\ ~calc.out.none
             /\ \A p \in TransPix :
                   LET weight == SumOver([j \in DOMAIN calc.in.obs |->
                                            calc.in.obs[j].totint],
                                        ValidRolls(p))
                       total == SumOver([j \in DOMAIN calc.in.obs |->
                                           calc.in.obs[j].totint
                                               * calc.in.obs[j].mask[p]],
                                       ValidRolls(p))
                   IN  /\ calc.out.px[p].nan = (ValidRolls(p) = {})
                       /\ ValidRolls(p) # {} =>
                             calc.out.px[p].num * weight
                                 = total * calc.out.px[p].den

---------------------------------------------------------------------------
(* Properties of run_ramp_fitting and Coron1Pipeline.process (SpecRun).    *)

\* The loop is between two files, or the function has been left.
BetweenFiles == ramp.pc \in {"setup", "returned", "raised"}

\* C28: run_ramp_fitting removes from the root logger and closes the log
\* file handler of every file before the next file is processed or the
\* function is left, whether pipeline.run returns or raises; an Exception of
\* the pipeline leaves as a RuntimeError and no later file is processed; with
\* no matching file a ValueError is raised before any pipeline is created.
C28_LogHandlerReleased ==
    /\ ramp.handlers \subseteq {ramp.i}
    /\ ramp.open = ramp.handlers
    /\ BetweenFiles => ramp.handlers = {} /\ ramp.open = {}
    /\ ramp.pc = "returned" => ramp.created = Len(ramp.files) /\ ramp.err = "none"
    /\ ramp.pc = "raised" /\ ramp.exc = "Exception" => ramp.err = "RuntimeError"
    /\ ramp.pc = "raised" /\ ramp.exc # "none" => ramp.created = ramp.i
    /\ ramp.exc # "none" => ramp.pc \in {"finally", "raised"}
    /\ Len(ramp.files) = 0 /\ ramp.pc # "start" =>
          ramp.pc = "raised" /\ ramp.err = "ValueError" /\ ramp.created = 0

\* The pipeline of the first of two files raised an Exception.
C28_Witness ==
    /\ ramp.pc = "raised"
    /\ ramp.exc = "Exception"
    /\ ramp.err = "RuntimeError"
    /\ Len(ramp.files) = 2
    /\ ramp.i = 1
    /\ ramp.created = 1
    /\ ramp.calls # <<>>
    /\ ramp.handlers = {}

\* The positions of the calls of a step in the exposure being processed.
CallsOf(step) == {k \in DOMAIN ramp.calls : ramp.calls[k].step = step}

\* An exposure is being processed, or was the last one to be processed.
Processing == ramp.calls # <<>> /\ ramp.pc # "setup"

\* C29: process runs group_scale, dq_init, saturation and ipc first, in that
\* order; jump after all the steps of the instrument and right before
\* ramp_fit; gain_scale only after ramp_fit, on the exposure-level product
\* only if ramp_fit returned one, and on the multi-integration product only
\* if there is one, which is never the case when ramp_fit is skipped.
C29_StepOrder ==
    LET calls == ramp.calls
        steps == InstrumentSteps(ramp.files[ramp.i])
        first == << "group_scale", "dq_init", "saturation", "ipc" >>
    IN  Processing =>
          /\ \A k \in DOMAIN calls : k <= 4 => calls[k].step = first[k]
          /\ \A k \in CallsOf("jump") :
                /\ k = Len(steps) + 1
                /\ \A j \in 1..(k - 1) : calls[j].step = steps[j]
          /\ \A k \in CallsOf("ramp_fit") : k > 1 /\ calls[k - 1].step = "jump"
          /\ \A k \in CallsOf("gain_scale") :
                /\ \E j \in CallsOf("ramp_fit") : j < k
                /\ calls[k].on # "None"
                /\ calls[k].on = "rateints" =>
                      ~ramp.skip /\ ramp.res[2] = "rateints"
                /\ calls[k].on # "rateints" => calls[k].on = ramp.res[1]
          /\ Cardinality(CallsOf("jump")) <= 1
          /\ Cardinality(CallsOf("ramp_fit")) <= 1
          /\ Cardinality(CallsOf("gain_scale")) <= 2

\* A near-infrared exposure whose two products have been gain-scaled.
C29_Witness ==
    /\ ramp.pc = "finally"
    /\ ramp.exc = "none"
    /\ ramp.files[ramp.i] = "NIRCAM"
    /\ \E k \in CallsOf("gain_scale") : ramp.calls[k].on = "rate"
    /\ \E k \in CallsOf("gain_scale") : ramp.calls[k].on = "rateints"

===========================================================================
